---- MODULE Spec2Model ----
(***************************************************************************)
(* Model of the keyword-monitor plugin (src/__init__.py): rule parsing,    *)
(* three-mode keyword matching, the throttled notification handler and the *)
(* temporary-rule store.                                                   *)
(*                                                                         *)
(* Strings are sequences of one-character strings, so that splitting,      *)
(* trimming, containment and concatenation are computed, not assumed.      *)
(***************************************************************************)
EXTENDS Integers, Sequences, FiniteSets, TLC

(***************************************************************************)
(* Python string primitives                                                *)
(***************************************************************************)

\* the whitespace characters of the model's alphabet
IsSpace(c) == c = " "

RECURSIVE LStrip(_)
\* str.lstrip()
LStrip(s) ==
    IF s # <<>> /\ IsSpace(Head(s)) THEN LStrip(Tail(s)) ELSE s

RECURSIVE RStrip(_)
\* str.rstrip()
RStrip(s) ==
    IF s # <<>> /\ IsSpace(s[Len(s)]) THEN RStrip(SubSeq(s, 1, Len(s) - 1)) ELSE s

\* str.strip()
Strip(s) == RStrip(LStrip(s))

RECURSIVE SplitFrom(_, _, _)
\* the parts of str.split(sep) still to come, cur being the part being read
SplitFrom(s, sep, cur) ==
    IF s = <<>> THEN <<cur>>
    ELSE IF Head(s) = sep THEN <<cur>> \o SplitFrom(Tail(s), sep, <<>>)
    ELSE SplitFrom(Tail(s), sep, Append(cur, Head(s)))

\* str.split(sep) for a one-character separator: always at least one part
Split(s, sep) == SplitFrom(s, sep, <<>>)

\* the non-empty members of a sequence of strings, in order
NonEmpty(parts) == SelectSeq(parts, LAMBDA p : p # <<>>)

\* str.split() without argument: split on whitespace runs, no empty part
SplitWords(s) == NonEmpty(Split(s, " "))

\* `sub in s` for strings: sub occurs as a contiguous substring of s
Contains(sub, s) ==
    \E i \in 0..(Len(s) - Len(sub)) :
        \A j \in 1..Len(sub) : s[i + j] = sub[j]

\* `x in list`
InList(x, list) == \E i \in 1..Len(list) : list[i] = x

\* Optional values: None is the empty sequence, Some(x) a one-element sequence
None == <<>>
Some(x) == <<x>>

(***************************************************************************)
(* parse_rule                                                              *)
(***************************************************************************)

\* [kw.strip() for kw in keywords_str.split(',') if kw.strip()]
KeywordList(keywords_str) ==
    LET pieces == Split(keywords_str, ",")
        stripped == [i \in 1..Len(pieces) |-> Strip(pieces[i])]
    IN NonEmpty(stripped)

\* parse_rule without its last test, an empty keyword list passing
parse_rule_any_keywords(rule_str) ==
    LET parts == Split(Strip(rule_str), "|")
    IN IF Len(parts) # 3 THEN None
       ELSE LET monitor_channel == Strip(parts[1])
                keywords_str == Strip(parts[2])
                notify_channel == Strip(parts[3])
            IN IF monitor_channel = <<>> \/ keywords_str = <<>> \/ notify_channel = <<>>
               THEN None
               ELSE Some([monitor |-> monitor_channel,
                          keywords |-> KeywordList(keywords_str),
                          notify |-> notify_channel])

\* parse_rule(rule_str): Some([monitor, keywords, notify]) or None
parse_rule(rule_str) ==
    LET parts == Split(Strip(rule_str), "|")
    IN IF Len(parts) # 3 THEN None
       ELSE LET monitor_channel == Strip(parts[1])
                keywords_str == Strip(parts[2])
                notify_channel == Strip(parts[3])
            IN IF monitor_channel = <<>> \/ keywords_str = <<>> \/ notify_channel = <<>>
               THEN None
               ELSE LET keywords == KeywordList(keywords_str)
                    IN IF keywords = <<>> THEN None
                       ELSE Some([monitor |-> monitor_channel,
                                  keywords |-> keywords,
                                  notify |-> notify_channel])

(***************************************************************************)
(* The regular expression engine (re), for the dialect of literals, '.',   *)
(* groups and alternation                                                  *)
(***************************************************************************)

RECURSIVE ParenDepthOk(_, _)
\* every ')' closes an open '(' and every '(' is closed
ParenDepthOk(p, depth) ==
    IF p = <<>> THEN depth = 0
    ELSE IF Head(p) = "(" THEN ParenDepthOk(Tail(p), depth + 1)
    ELSE IF Head(p) = ")" THEN depth > 0 /\ ParenDepthOk(Tail(p), depth - 1)
    ELSE ParenDepthOk(Tail(p), depth)

\* re.compile(pattern) succeeds
ReCompiles(pattern) == ParenDepthOk(pattern, 0)

\* validate_regex(pattern): True iff re.compile does not raise re.error
validate_regex(pattern) == ReCompiles(pattern)

\* position of the first ')' of p, 0 when there is none
FirstClose(p) ==
    IF \E i \in 1..Len(p) : p[i] = ")"
    THEN CHOOSE i \in 1..Len(p) : p[i] = ")" /\ \A j \in 1..(i - 1) : p[j] # ")"
    ELSE 0

\* position of the last '(' of p before position c
LastOpenBefore(p, c) ==
    CHOOSE i \in 1..(c - 1) : p[i] = "(" /\ \A j \in (i + 1)..(c - 1) : p[j] # "("

RECURSIVE ReWords(_)
\* the set of group-free, alternation-free words a compiled pattern stands for
ReWords(p) ==
    LET c == FirstClose(p)
    IN IF c = 0 THEN {alt : alt \in {Split(p, "|")[i] : i \in 1..Len(Split(p, "|"))}}
       ELSE LET o == LastOpenBefore(p, c)
                inner == Split(SubSeq(p, o + 1, c - 1), "|")
            IN UNION {ReWords(SubSeq(p, 1, o - 1) \o inner[i] \o SubSeq(p, c + 1, Len(p)))
                        : i \in 1..Len(inner)}

\* a word of literals and '.' occurs somewhere in text
WordFound(w, text) ==
    \E i \in 0..(Len(text) - Len(w)) :
        \A j \in 1..Len(w) : w[j] = "." \/ text[i + j] = w[j]

\* pattern.search(text) is not None
ReSearch(pattern, text) == \E w \in ReWords(pattern) : WordFound(w, text)

(***************************************************************************)
(* check_keywords                                                          *)
(*                                                                         *)
(* REGEX_TIMEOUT and the duration of a search are counted in tenths of a   *)
(* second.  What one pattern.search call does on the machine is an input:  *)
(* run[i] = [err |-> the call raises, dur |-> how long it needs].          *)
(***************************************************************************)

\* int(timeout), the argument of signal.alarm, in whole seconds
AlarmSeconds(timeout) == timeout \div 10

\* SIGALRM is delivered during a search: an alarm was armed (alarm(0) arms
\* none) and the search is still running when it expires
AlarmFires(timeout, dur) ==
    AlarmSeconds(timeout) > 0 /\ dur > AlarmSeconds(timeout) * 10

\* the body of the try block for one keyword: what the iteration ends with
KeywordOutcome(text, keyword, mode, timeout, r) ==
    IF mode = 0 THEN (IF Contains(keyword, text) THEN "match" ELSE "nomatch")
    ELSE IF mode = 1 THEN (IF InList(keyword, SplitWords(text)) THEN "match" ELSE "nomatch")
    ELSE IF mode = 2 THEN
        IF ~validate_regex(keyword) THEN "invalid"
        ELSE IF r.err THEN "Exception"
        ELSE IF AlarmFires(timeout, r.dur) THEN "TimeoutError"
        ELSE IF ReSearch(keyword, text) THEN "match"
        ELSE "nomatch"
    ELSE "nomatch"

\* a value returned to the caller, or an exception raised to it
Returned(v) == [raised |-> FALSE, value |-> v]
Raised(e) == [raised |-> TRUE, value |-> <<e>>]

RECURSIVE CheckFromLast(_, _, _, _, _, _)
\* a loop that keeps going after a match and so returns the last match
CheckFromLast(i, text, keywords, mode, timeout, run) ==
    IF i > Len(keywords) THEN Returned(None)
    ELSE LET rest == CheckFromLast(i + 1, text, keywords, mode, timeout, run)
         IN IF rest.value # None THEN rest
            ELSE IF KeywordOutcome(text, keywords[i], mode, timeout, run[i]) = "match"
            THEN Returned(Some(keywords[i]))
            ELSE rest

RECURSIVE CheckFromAbort(_, _, _, _, _, _)
\* a loop whose except clauses re-raise and whose invalid pattern ends the call
CheckFromAbort(i, text, keywords, mode, timeout, run) ==
    IF i > Len(keywords) THEN Returned(None)
    ELSE LET out == KeywordOutcome(text, keywords[i], mode, timeout, run[i])
         IN IF out = "match" THEN Returned(Some(keywords[i]))
            ELSE IF out = "invalid" THEN Returned(None)
            ELSE IF out = "TimeoutError" THEN Raised(out)
            ELSE IF out = "Exception" THEN Raised(out)
            ELSE CheckFromAbort(i + 1, text, keywords, mode, timeout, run)

RECURSIVE CheckFrom(_, _, _, _, _, _)
\* the for loop of check_keywords from keyword i on
CheckFrom(i, text, keywords, mode, timeout, run) ==
    IF i > Len(keywords) THEN Returned(None)
    ELSE LET out == KeywordOutcome(text, keywords[i], mode, timeout, run[i])
         IN IF out = "match" THEN Returned(Some(keywords[i]))
            ELSE IF out = "invalid" THEN CheckFrom(i + 1, text, keywords, mode, timeout, run)
            ELSE IF out = "TimeoutError" THEN CheckFrom(i + 1, text, keywords, mode, timeout, run)
            ELSE IF out = "Exception" THEN CheckFrom(i + 1, text, keywords, mode, timeout, run)
            ELSE CheckFrom(i + 1, text, keywords, mode, timeout, run)

\* check_keywords(text, keywords, mode, timeout)
check_keywords(text, keywords, mode, timeout, run) ==
    CheckFrom(1, text, keywords, mode, timeout, run)

(***************************************************************************)
(* The store's values: str(float), float(str), json.dumps, json.loads      *)
(***************************************************************************)

DigitChars == <<"0", "1", "2", "3", "4", "5", "6", "7", "8", "9">>

IsDigit(c) == \E d \in 1..Len(DigitChars) : DigitChars[d] = c

DigitVal(c) == (CHOOSE d \in 1..Len(DigitChars) : DigitChars[d] = c) - 1

RECURSIVE Digits(_)
\* the decimal digits of a natural number
Digits(n) ==
    IF n < Len(DigitChars) THEN <<DigitChars[n + 1]>>
    ELSE Append(Digits(n \div Len(DigitChars)), DigitChars[(n % Len(DigitChars)) + 1])

\* str(timestamp) of a float with a whole number of seconds: "12.0"
PyStr(timestamp) == Digits(timestamp) \o <<".", "0">>

RECURSIVE DigitsValue(_, _)
\* the number a string of digits denotes, acc being the value read so far
DigitsValue(s, acc) ==
    IF s = <<>> THEN acc
    ELSE DigitsValue(Tail(s), acc * Len(DigitChars) + DigitVal(Head(s)))

AllDigits(s) == \A i \in 1..Len(s) : IsDigit(s[i])

\* float(s): the whole seconds of a decimal numeral, or ValueError
PyFloat(s) ==
    LET t == Strip(s)
        parts == Split(t, ".")
    IN IF Len(parts) = 1 /\ parts[1] # <<>> /\ AllDigits(parts[1])
       THEN Returned(DigitsValue(parts[1], 0))
       ELSE IF Len(parts) = 2 /\ (parts[1] \o parts[2]) # <<>>
               /\ AllDigits(parts[1]) /\ AllDigits(parts[2])
       THEN Returned(DigitsValue(parts[1], 0))
       ELSE Raised("ValueError")

RECURSIVE JsonItems(_)
\* the items of a JSON array of strings: "r1", "r2"
JsonItems(list) ==
    IF list = <<>> THEN <<>>
    ELSE IF Len(list) = 1 THEN <<"\"">> \o list[1] \o <<"\"">>
    ELSE <<"\"">> \o list[1] \o <<"\"", ",", " ">> \o JsonItems(Tail(list))

\* json.dumps(list of strings), for strings without quote or backslash
JsonDumps(list) == <<"[">> \o JsonItems(list) \o <<"]">>

\* json.loads of such an array: the texts between the 1st and 2nd quote, the 3rd
\* and 4th, ...
JsonLoads(s) ==
    LET pieces == Split(s, "\"")
    IN [i \in 1..((Len(pieces) - 1) \div 2) |-> pieces[2 * i]]

(***************************************************************************)
(* NOTIFY_TEMPLATE.format(...)                                             *)
(***************************************************************************)

Lit(s) == [kind |-> "lit", s |-> s]
Field(name) == [kind |-> "field", s |-> name]

\* str.format: every replacement field is looked up in the keyword arguments,
\* and a missing one raises KeyError
Format(template, kwargs) ==
    IF \E i \in 1..Len(template) :
            template[i].kind = "field" /\ template[i].s \notin DOMAIN kwargs
    THEN Raised("KeyError")
    ELSE Returned([i \in 1..Len(template) |->
                      IF template[i].kind = "field" THEN kwargs[template[i].s]
                      ELSE template[i].s])

\* message.content_text[:200]
ContentLimit == 200

Take(s, n) == SubSeq(s, 1, IF Len(s) < n THEN Len(s) ELSE n)

(***************************************************************************)
(* State                                                                   *)
(***************************************************************************)

VARIABLES
    config,   \* plugin.get_config(KeywordMonitorConfig)
    store,    \* plugin.store: store_key -> stored string
    now,      \* time.time(), in seconds
    hs,       \* the handle_user_message calls, one per worker
    adds,     \* the add_temp_monitor_rule calls, one per caller
    sent,     \* the notifications send_text has delivered, in order
    accepted, \* the rule texts for which add_temp_monitor_rule has reported success
    nmsg,     \* number of messages received so far
    nadd,     \* number of add_temp_monitor_rule calls so far
    mt,       \* one call of check_keywords: its arguments and its result
    pr        \* one call of parse_rule: its argument and its result

vars == <<config, store, now, hs, adds, sent, accepted, nmsg, nadd, mt, pr>>

(***************************************************************************)
(* The call of check_keywords on its own                                   *)
(***************************************************************************)

\* longest keyword list of a check_keywords call
MaxKeywords == 2

MatchTexts ==
    { <<"x">>, <<"z", "x">>, <<"x", " ", "y">>, <<"z">> }

MatchKeywords ==
    { <<"x">>, <<"y">>, <<"(">>, <<"x", ".">>, <<"(", "z", "|", "y", ")">> }

Modes == {0, 1, 2}

\* REGEX_TIMEOUT values, in tenths of a second: 0.5, 1.0, 1.5
Timeouts == {5, 10, 15}

\* what a search can do: raise, or finish after dur tenths of a second
QuickRun == [err |-> FALSE, dur |-> 0]
RunOutcomes ==
    { [err |-> TRUE, dur |-> 0], QuickRun,
      [err |-> FALSE, dur |-> 7], [err |-> FALSE, dur |-> 12] }

\* the keyword lists of up to MaxKeywords keywords
KeywordLists == UNION { [1..n -> MatchKeywords] : n \in 0..MaxKeywords }

\* the searches only run in regex mode
RunsFor(keywords, mode) ==
    IF mode = 2 THEN [1..Len(keywords) -> RunOutcomes]
    ELSE { [i \in 1..Len(keywords) |-> QuickRun] }

MatchIdle ==
    [pc |-> "idle", text |-> <<>>, keywords |-> <<>>, mode |-> 0, timeout |-> 10,
     run |-> <<>>, result |-> Returned(None)]

\* the calls of check_keywords on keywords k in mode m
MatchCalls(k, m) ==
    { [pc |-> "call", text |-> t, keywords |-> k, mode |-> m, timeout |-> to,
       run |-> r, result |-> Returned(None)]
      : t \in MatchTexts, to \in Timeouts, r \in RunsFor(k, m) }

\* check_keywords runs and returns
MatchCall ==
    /\ mt.pc = "call"
    /\ mt' = [mt EXCEPT !.pc = "returned",
                        !.result = check_keywords(mt.text, mt.keywords, mt.mode,
                                                  mt.timeout, mt.run)]
    /\ UNCHANGED <<config, store, now, hs, adds, sent, accepted, nmsg, nadd, pr>>

(***************************************************************************)
(* The call of parse_rule on its own                                       *)
(***************************************************************************)

\* longest rule text built from the alphabet
MaxRuleLen == 6

\* a name character, the two separators and a blank
RuleChars == {"a", "|", ",", " "}

RuleTexts == UNION { [1..n -> RuleChars] : n \in 0..MaxRuleLen }

\* The regex-mode example lines of the module documentation, one letter for
\* each name, word and character class:
\*   group|\b重要\b,\b紧急\b,@管理员|private        as  g|x,y,z|p
\*   group|(重要|紧急|urgent),@\w*管理员,错误\d+|private  as  g|(x|y|u),z.,e.|p
DocRegexRule ==
    <<"g", "|", "x", ",", "y", ",", "z", "|", "p">>
DocAdvancedRule ==
    <<"g", "|", "(", "x", "|", "y", "|", "u", ")", ",", "z", ".", ",", "e", ".", "|", "p">>
DocRules == {DocRegexRule, DocAdvancedRule}

ParseIdle == [pc |-> "idle", text |-> <<>>, result |-> None]

ParseCalls ==
    { [pc |-> "call", text |-> t, result |-> None] : t \in RuleTexts \cup DocRules }

\* parse_rule runs and returns
ParseCall ==
    /\ pr.pc = "call"
    /\ pr' = [pr EXCEPT !.pc = "returned", !.result = parse_rule(pr.text)]
    /\ UNCHANGED <<config, store, now, hs, adds, sent, accepted, nmsg, nadd, mt>>

(***************************************************************************)
(* Configurations, channels and messages                                   *)
(***************************************************************************)

chA == <<"a">>
chB == <<"b">>
chAA == <<"a", "_", "a">>

\* "a|x,y|b"
RuleAB == <<"a", "|", "x", ",", "y", "|", "b">>
\* "a| y |b": the same channel pair as RuleAB
RuleAB2 == <<"a", "|", " ", "y", " ", "|", "b">>
\* "a|x": malformed
RuleBad == <<"a", "|", "x">>
\* "a|(,x.|b": as patterns, an invalid one and a valid one
RuleRe == <<"a", "|", "(", ",", "x", ".", "|", "b">>
\* "a|x|a_a" and "a_a|x|a"
RuleA_AA == <<"a", "|", "x", "|", "a", "_", "a">>
RuleAA_A == <<"a", "_", "a", "|", "x", "|", "a">>

\* the default template, and one with a field format() is not given
TemplateDefault ==
    <<Lit("channel:"), Field("channel_name"), Lit("keyword:"), Field("keyword"),
      Lit("content:"), Field("content"), Lit("time:"), Field("time")>>
TemplateUnknown == <<Field("keyword"), Field("sender")>>

\* the clock's first and last value
StartTime == 3
MaxTime == 5

\* NOTIFY_INTERVAL values: none, a short one, one longer than the clock has run
IntervalShort == 2
IntervalLong == 9
Intervals == {0, IntervalShort, IntervalLong}

\* the defaults of KeywordMonitorConfig, with one rule configured
DefaultConfig ==
    [MONITOR_RULES |-> <<RuleAB>>, MATCH_MODE |-> 0, NOTIFY_TEMPLATE |-> TemplateDefault,
     NOTIFY_INTERVAL |-> IntervalShort, REGEX_TIMEOUT |-> 10]

\* literal rules in fuzzy mode under every interval: two rules sharing a channel
\* pair after a malformed one, and two rules whose rule keys read the same
LiteralConfigs ==
    { [DefaultConfig EXCEPT !.MONITOR_RULES = r, !.NOTIFY_INTERVAL = i]
        : r \in { <<RuleBad, RuleAB, RuleAB2>>, <<RuleA_AA, RuleAA_A>> }, i \in Intervals }

\* the same with a template format() cannot render
UnknownFieldConfigs ==
    { [c EXCEPT !.NOTIFY_TEMPLATE = TemplateUnknown] : c \in LiteralConfigs }

\* whole-word mode
ExactConfigs ==
    { [DefaultConfig EXCEPT !.MONITOR_RULES = <<RuleBad, RuleAB, RuleAB2>>, !.MATCH_MODE = 1] }

\* regex mode under every timeout
RegexConfigs ==
    { [DefaultConfig EXCEPT !.MONITOR_RULES = <<RuleRe>>, !.MATCH_MODE = 2,
                            !.REGEX_TIMEOUT = t] : t \in Timeouts }

Configs == LiteralConfigs \cup UnknownFieldConfigs \cup ExactConfigs \cup RegexConfigs

\* _ctx.chat_key of an inbound message; the empty one is a missing chat_key
ChatKeys == {chA, chAA, <<>>}
\* message.content_text
Texts == { <<"x">>, <<"x", " ", "y">> }

\* number of concurrent message workers, and of messages received in a run
NumHandlers == 2
MaxMsgs == 2
Handlers == 1..NumHandlers

(***************************************************************************)
(* handle_user_message                                                     *)
(***************************************************************************)

\* f"{monitor_channel}_{notify_channel}"
RuleKey(monitor_channel, notify_channel) == monitor_channel \o <<"_">> \o notify_channel

\* f"notify_time_{rule_key}"
NotifyTimeKey(rule_key) == <<"notify_time_">> \o rule_key

\* plugin.store.get(store_key=...): the stored string, or None
StoreGet(key) == IF key \in DOMAIN store THEN Some(store[key]) ELSE None

\* plugin.store.set(store_key=..., value=...)
StoreSet(key, value) == [k \in DOMAIN store \cup {key} |-> IF k = key THEN value ELSE store[k]]

\* float(time_str) if time_str else 0, on what store.get returned
LastNotifyTime(time_str) ==
    IF time_str = None \/ time_str = Some(<<>>) THEN Returned(0)
    ELSE PyFloat(time_str[1])

\* a handler outside a call; ret is what its last call gave the host: None
\* before the first call, Some(result) after a call
HandlerIdle(ret) ==
    [pc |-> "idle", msg |-> 0, chan |-> <<>>, text |-> <<>>, idx |-> 0, applied |-> <<>>,
     kw |-> <<>>, monitor |-> <<>>, notify |-> <<>>, time_str |-> None, cur |-> 0,
     note |-> <<>>, out |-> "", ret |-> ret]

\* the handler goes on with the next rule of the for loop; out tells how the
\* evaluation of this rule ended
NextRule(h, out) ==
    [hs[h] EXCEPT !.pc = "rule", !.idx = @ + 1, !.kw = <<>>, !.monitor = <<>>,
                  !.notify = <<>>, !.time_str = None, !.cur = 0, !.note = <<>>,
                  !.out = out]

\* an outer try block that does not catch: the error reaches the host
OuterExceptMissing(e) == Raised(e)

\* the outer `except Exception` clause: the error is logged, and the function
\* goes on to its last line, `return None`
OuterExcept(e) == Returned(None)

\* the call ends in the outer except clause, which logs the error e
Abort(e) == [HandlerIdle(Some(OuterExcept(e))) EXCEPT !.out = e]

\* the rules the for loop iterates over: config.MONITOR_RULES
RulesToCheck == config.MONITOR_RULES

\* the host calls handle_user_message; a missing chat_key returns at once
Receive(h, chat_key, text) ==
    /\ hs[h].pc = "idle"
    /\ nmsg < MaxMsgs
    /\ nmsg' = nmsg + 1
    /\ hs' = [hs EXCEPT ![h] =
                IF chat_key = <<>> THEN HandlerIdle(Some(Returned(None)))
                ELSE [HandlerIdle(None) EXCEPT
                        !.pc = "rule", !.msg = nmsg + 1, !.chan = chat_key,
                        !.text = text, !.idx = 1]]
    /\ UNCHANGED <<config, store, now, adds, sent, accepted, nadd, mt, pr>>

\* the for loop is over: return None
RulesDone(h) ==
    /\ hs[h].pc = "rule"
    /\ hs[h].idx > Len(RulesToCheck)
    /\ hs' = [hs EXCEPT ![h] = HandlerIdle(Some(Returned(None)))]
    /\ UNCHANGED <<config, store, now, adds, sent, accepted, nmsg, nadd, mt, pr>>

\* one iteration of `for rule_str in config.MONITOR_RULES`, up to the throttle check
RuleStep(h) ==
    /\ hs[h].pc = "rule"
    /\ hs[h].idx <= Len(RulesToCheck)
    /\ LET parsed == parse_rule(RulesToCheck[hs[h].idx])
       IN IF parsed = None
          THEN hs' = [hs EXCEPT ![h] = NextRule(h, "malformed")]
          ELSE IF parsed[1].monitor # hs[h].chan
          THEN hs' = [hs EXCEPT ![h] = NextRule(h, "other")]
          ELSE \E run \in RunsFor(parsed[1].keywords, config.MATCH_MODE) :
                 LET rule == parsed[1]
                     matched == check_keywords(hs[h].text, rule.keywords,
                                               config.MATCH_MODE, config.REGEX_TIMEOUT, run)
                     seen == [NextRule(h, "nomatch") EXCEPT !.applied = Append(@, rule)]
                 IN IF matched.raised
                    THEN hs' = [hs EXCEPT ![h] = Abort(matched.value[1])]
                    ELSE IF matched.value = None \/ matched.value = Some(<<>>)
                    THEN hs' = [hs EXCEPT ![h] = seen]
                    ELSE hs' = [hs EXCEPT ![h] =
                                  [seen EXCEPT !.pc = "get", !.idx = hs[h].idx,
                                               !.kw = matched.value[1],
                                               !.monitor = rule.monitor,
                                               !.notify = rule.notify, !.out = ""]]
    /\ UNCHANGED <<config, store, now, adds, sent, accepted, nmsg, nadd, mt, pr>>

\* the keyword arguments of NOTIFY_TEMPLATE.format in handle_user_message
FormatArgs(h, current_time) ==
    [channel_name |-> hs[h].chan, channel_id |-> <<"unknown">>, keyword |-> hs[h].kw,
     content |-> Take(hs[h].text, ContentLimit), time |-> Digits(current_time)]

\* a store key of its own for every keyword that matched
HandlerKeyPerKeyword(h) ==
    NotifyTimeKey(RuleKey(hs[h].monitor, hs[h].notify) \o <<"_">> \o hs[h].kw)

\* the store key of the rule handler h is evaluating
HandlerKey(h) == NotifyTimeKey(RuleKey(hs[h].monitor, hs[h].notify))

\* a throttle test that skips up to and including the interval's last second
IntervalNotElapsedLate(current_time, last_time, interval) ==
    current_time - last_time <= interval

\* `current_time - last_time < config.NOTIFY_INTERVAL`: the rule is skipped
IntervalNotElapsed(current_time, last_time, interval) ==
    current_time - last_time < interval

\* get_last_notify_time returns, time.time() is read, the interval is checked,
\* and the notification text is built
GetLast(h) ==
    /\ hs[h].pc = "get"
    /\ LET time_str == StoreGet(HandlerKey(h))
           last_time == LastNotifyTime(time_str)
           current_time == now
       IN IF last_time.raised
          THEN hs' = [hs EXCEPT ![h] = Abort(last_time.value[1])]
          ELSE IF IntervalNotElapsed(current_time, last_time.value, config.NOTIFY_INTERVAL)
          THEN hs' = [hs EXCEPT ![h] = NextRule(h, "suppressed")]
          ELSE LET notify_text == Format(config.NOTIFY_TEMPLATE, FormatArgs(h, current_time))
               IN IF notify_text.raised
                  THEN hs' = [hs EXCEPT ![h] = Abort(notify_text.value[1])]
                  ELSE hs' = [hs EXCEPT ![h].pc = "send", ![h].time_str = time_str,
                                        ![h].cur = current_time,
                                        ![h].note = notify_text.value]
    /\ UNCHANGED <<config, store, now, adds, sent, accepted, nmsg, nadd, mt, pr>>

\* plugin.store.get raises inside get_last_notify_time
GetLastFails(h) ==
    /\ hs[h].pc = "get"
    /\ hs' = [hs EXCEPT ![h] = Abort("StoreError")]
    /\ UNCHANGED <<config, store, now, adds, sent, accepted, nmsg, nadd, mt, pr>>

\* the notification send_text delivers for handler h
Notification(h) ==
    [msg |-> hs[h].msg, monitor |-> hs[h].monitor, to |-> hs[h].notify,
     key |-> RuleKey(hs[h].monitor, hs[h].notify), time |-> hs[h].cur, kw |-> hs[h].kw]

\* send_text delivers the notification
Send(h) ==
    /\ hs[h].pc = "send"
    /\ sent' = Append(sent, Notification(h))
    /\ hs' = [hs EXCEPT ![h].pc = "set"]
    /\ UNCHANGED <<config, store, now, adds, accepted, nmsg, nadd, mt, pr>>

\* an except clause that records the attempt all the same
SendFailsRecorded(h) == StoreSet(HandlerKey(h), PyStr(hs[h].cur))

\* what the inner `except Exception` clause leaves in the store after a failed send
SendFailsStore(h) == store

\* send_text raises: the inner except clause logs it and the loop goes on
SendFails(h) ==
    /\ hs[h].pc = "send"
    /\ store' = SendFailsStore(h)
    /\ hs' = [hs EXCEPT ![h] = NextRule(h, "sendfail")]
    /\ UNCHANGED <<config, now, adds, sent, accepted, nmsg, nadd, mt, pr>>

\* set_last_notify_time(rule_key, current_time) after a successful send
SetLast(h) ==
    /\ hs[h].pc = "set"
    /\ store' = StoreSet(HandlerKey(h), PyStr(hs[h].cur))
    /\ hs' = [hs EXCEPT ![h] = NextRule(h, "sent")]
    /\ UNCHANGED <<config, now, adds, sent, accepted, nmsg, nadd, mt, pr>>

\* plugin.store.set raises inside set_last_notify_time: the inner except clause
\* logs it as a failed send
SetLastFails(h) ==
    /\ hs[h].pc = "set"
    /\ hs' = [hs EXCEPT ![h] = NextRule(h, "setfail")]
    /\ UNCHANGED <<config, store, now, adds, sent, accepted, nmsg, nadd, mt, pr>>

\* time passes
Tick ==
    /\ now < MaxTime
    /\ now' = now + 1
    /\ UNCHANGED <<config, store, hs, adds, sent, accepted, nmsg, nadd, mt, pr>>

(***************************************************************************)
(* add_temp_monitor_rule                                                   *)
(***************************************************************************)

\* number of concurrent callers, and of calls in a run
NumAdders == 2
MaxAdds == 2
Adders == 1..NumAdders

AddMonitors == {chA}
\* "x", "(,y", " " and "x|y"
AddKeywords == { <<"x">>, <<"(", ",", "y">>, <<" ">>, <<"x", "|", "y">> }
AddNotifies == {chB}

TempRulesKey == <<"temp_rules">>

\* a caller outside a call; ret is what its last call gave it
AdderIdle(ret) ==
    [pc |-> "idle", monitor |-> <<>>, keywords |-> <<>>, notify |-> <<>>,
     list |-> <<>>, ret |-> ret]

\* f"{monitor_channel}|{keywords}|{notify_channel}"
NewRule(monitor_channel, keywords, notify_channel) ==
    monitor_channel \o <<"|">> \o keywords \o <<"|">> \o notify_channel

\* the rule text caller a is adding
AdderRule(a) == NewRule(adds[a].monitor, adds[a].keywords, adds[a].notify)

\* json.loads(temp_rules_str) if temp_rules_str else []
TempRules(temp_rules_str) ==
    IF temp_rules_str = None \/ temp_rules_str = Some(<<>>) THEN <<>>
    ELSE JsonLoads(temp_rules_str[1])

\* the temporary rules the store holds
StoredTempRules == TempRules(StoreGet(TempRulesKey))

\* the call starts: the keyword list and, in regex mode, its patterns are checked
AddCall(a, monitor_channel, keywords, notify_channel) ==
    /\ adds[a].pc = "idle"
    /\ nadd < MaxAdds
    /\ nadd' = nadd + 1
    /\ LET keyword_list == KeywordList(keywords)
           invalid_patterns == SelectSeq(keyword_list, LAMBDA kw : ~validate_regex(kw))
       IN IF keyword_list = <<>>
          THEN adds' = [adds EXCEPT ![a] = AdderIdle(Some(Returned("EmptyKeywords")))]
          ELSE IF config.MATCH_MODE = 2 /\ invalid_patterns # <<>>
          THEN adds' = [adds EXCEPT ![a] = AdderIdle(Some(Returned("InvalidPattern")))]
          ELSE adds' = [adds EXCEPT ![a] =
                          [AdderIdle(None) EXCEPT !.pc = "get", !.monitor = monitor_channel,
                                                  !.keywords = keywords,
                                                  !.notify = notify_channel]]
    /\ UNCHANGED <<config, store, now, hs, sent, accepted, nmsg, mt, pr>>

\* a duplicate check that finds nothing
NeverExists(new_rule, temp_rules) == FALSE

\* `new_rule in temp_rules`
AlreadyExists(new_rule, temp_rules) == InList(new_rule, temp_rules)

\* plugin.store.get("temp_rules") returns; the rule is built, looked up and appended
AddGet(a) ==
    /\ adds[a].pc = "get"
    /\ LET temp_rules == StoredTempRules
           new_rule == AdderRule(a)
       IN IF AlreadyExists(new_rule, temp_rules)
          THEN adds' = [adds EXCEPT ![a] = AdderIdle(Some(Returned("AlreadyExists")))]
          ELSE adds' = [adds EXCEPT ![a].pc = "set",
                                    ![a].list = Append(temp_rules, new_rule)]
    /\ UNCHANGED <<config, store, now, hs, sent, accepted, nmsg, nadd, mt, pr>>

\* plugin.store.get raises: the call raises to its caller
AddGetFails(a) ==
    /\ adds[a].pc = "get"
    /\ adds' = [adds EXCEPT ![a] = AdderIdle(Some(Raised("StoreError")))]
    /\ UNCHANGED <<config, store, now, hs, sent, accepted, nmsg, nadd, mt, pr>>

\* plugin.store.set("temp_rules", json.dumps(temp_rules)) returns: the call succeeds
AddSet(a) ==
    /\ adds[a].pc = "set"
    /\ store' = StoreSet(TempRulesKey, JsonDumps(adds[a].list))
    /\ accepted' = accepted \cup {AdderRule(a)}
    /\ adds' = [adds EXCEPT ![a] = AdderIdle(Some(Returned("ok")))]
    /\ UNCHANGED <<config, now, hs, sent, nmsg, nadd, mt, pr>>

\* plugin.store.set raises: the call raises to its caller
AddSetFails(a) ==
    /\ adds[a].pc = "set"
    /\ adds' = [adds EXCEPT ![a] = AdderIdle(Some(Raised("StoreError")))]
    /\ UNCHANGED <<config, store, now, hs, sent, accepted, nmsg, nadd, mt, pr>>

(***************************************************************************)
(* Specifications                                                          *)
(***************************************************************************)

EmptyStore == [k \in {} |-> <<>>]

InitWith(c) ==
    /\ config = c
    /\ store = EmptyStore
    /\ now = StartTime
    /\ hs = [h \in Handlers |-> HandlerIdle(None)]
    /\ adds = [a \in Adders |-> AdderIdle(None)]
    /\ sent = <<>>
    /\ accepted = {}
    /\ nmsg = 0
    /\ nadd = 0

Init ==
    /\ \E c \in Configs : InitWith(c)
    /\ mt = MatchIdle
    /\ pr = ParseIdle

HandlerNext(h) ==
    \/ \E chat_key \in ChatKeys, text \in Texts : Receive(h, chat_key, text)
    \/ RulesDone(h)
    \/ RuleStep(h)
    \/ GetLast(h)
    \/ Send(h)
    \/ SetLast(h)

HandlerFault(h) ==
    \/ GetLastFails(h)
    \/ SendFails(h)
    \/ SetLastFails(h)

AdderNext(a) ==
    \/ \E m \in AddMonitors, k \in AddKeywords, n \in AddNotifies : AddCall(a, m, k, n)
    \/ AddGet(a)
    \/ AddSet(a)

AdderFault(a) ==
    \/ AddGetFails(a)
    \/ AddSetFails(a)

\* The message pipeline: messages handled concurrently by the workers, a store
\* and a send that may fail, time passing.  (handle_user_message reads nothing
\* add_temp_monitor_rule writes, so the add calls are left to SpecAdd.)
Next ==
    \/ \E h \in Handlers : HandlerNext(h) \/ HandlerFault(h)
    \/ Tick

Spec == Init /\ [][Next]_vars

\* the same pipeline with a store and a send that never fail
NextNoFault ==
    \/ \E h \in Handlers : HandlerNext(h)
    \/ Tick

SpecNoFault == Init /\ [][NextNoFault]_vars

\* add_temp_monitor_rule called concurrently, a store that may fail
NextAdd == \E a \in Adders : AdderNext(a) \/ AdderFault(a)

InitAdd ==
    /\ \E c \in {DefaultConfig} \cup RegexConfigs : InitWith(c)
    /\ mt = MatchIdle
    /\ pr = ParseIdle

SpecAdd == InitAdd /\ [][NextAdd]_vars

\* One call at a time, of either kind, every store access and every send
\* succeeding: a host that serializes its callbacks uses one worker.
HandlerTurn == adds[1].pc = "idle"
AdderTurn == hs[1].pc = "idle"

NextSerial ==
    \/ HandlerTurn /\ \E chat_key \in ChatKeys, text \in Texts : Receive(1, chat_key, text)
    \/ HandlerTurn /\ RulesDone(1)
    \/ HandlerTurn /\ RuleStep(1)
    \/ HandlerTurn /\ GetLast(1)
    \/ HandlerTurn /\ Send(1)
    \/ HandlerTurn /\ SetLast(1)
    \/ AdderTurn /\ \E m \in AddMonitors, k \in AddKeywords, n \in AddNotifies :
                        AddCall(1, m, k, n)
    \/ AdderTurn /\ AddGet(1)
    \/ AdderTurn /\ AddSet(1)
    \/ Tick

InitSerial ==
    /\ \E c \in LiteralConfigs \cup ExactConfigs \cup RegexConfigs : InitWith(c)
    /\ mt = MatchIdle
    /\ pr = ParseIdle

SpecSerial == InitSerial /\ [][NextSerial]_vars

InitMatch ==
    /\ InitWith(DefaultConfig)
    /\ \E k \in KeywordLists, m \in Modes : mt \in MatchCalls(k, m)
    /\ pr = ParseIdle

\* check_keywords called on every keyword list of KeywordLists in every mode
SpecMatch == InitMatch /\ [][MatchCall]_vars

InitParse ==
    /\ InitWith(DefaultConfig)
    /\ mt = MatchIdle
    /\ pr \in ParseCalls

\* parse_rule called on every input of ParseCalls
SpecParse == InitParse /\ [][ParseCall]_vars

(***************************************************************************)
(* Properties of check_keywords (SpecMatch)                                *)
(***************************************************************************)

\* how the evaluation of keyword i of the call ends
MtOutcome(i) == KeywordOutcome(mt.text, mt.keywords[i], mt.mode, mt.timeout, mt.run[i])

\* the positions of the keywords that match the text under the call's mode
MtMatching == { i \in 1..Len(mt.keywords) : MtOutcome(i) = "match" }

\* the smallest member of a non-empty set of numbers
Least(S) == CHOOSE i \in S : \A j \in S : i <= j

\* a sequence without its i-th element
Without(seq, i) == SubSeq(seq, 1, i - 1) \o SubSeq(seq, i + 1, Len(seq))

\* C7: in every mode check_keywords returns the matching keyword that comes
\* first in the list, and None exactly when no keyword matches.
C7_FirstMatchWins ==
    mt.pc = "returned" =>
        /\ ~mt.result.raised
        /\ IF MtMatching = {} THEN mt.result.value = None
           ELSE mt.result.value = Some(mt.keywords[Least(MtMatching)])

\* two different keywords match and the first of them was returned
C7_Witness ==
    /\ mt.pc = "returned"
    /\ \E i, j \in MtMatching : i < j /\ mt.keywords[i] # mt.keywords[j]
                                /\ mt.result.value = Some(mt.keywords[i])

\* C8: in regex mode an invalid pattern, or a keyword whose evaluation raises,
\* counts as a non-match of that keyword alone: the call raises nothing and
\* returns what it returns for the list without that keyword.
C8_BadKeywordIsolated ==
    (mt.pc = "returned" /\ mt.mode = 2) =>
        /\ ~mt.result.raised
        /\ \A i \in 1..Len(mt.keywords) :
              MtOutcome(i) \in {"invalid", "Exception"} =>
                 mt.result = check_keywords(mt.text, Without(mt.keywords, i), mt.mode,
                                            mt.timeout, Without(mt.run, i))

\* an invalid pattern and a raising search come first, and the valid keyword
\* after them was returned
C8_Witness ==
    /\ mt.pc = "returned" /\ mt.mode = 2
    /\ \E i, j \in 1..Len(mt.keywords) :
          /\ i < j
          /\ MtOutcome(i) \in {"invalid", "Exception"}
          /\ MtOutcome(j) = "match"
          /\ mt.keywords[i] # mt.keywords[j]
          /\ mt.result.value = Some(mt.keywords[j])

\* C9: in regex mode, for every REGEX_TIMEOUT > 0, a keyword whose search needs
\* longer than the timeout is abandoned and counts as a non-match: the keyword
\* the call returns is never one whose search overran the timeout.
C9_OverrunIsNoMatch ==
    (mt.pc = "returned" /\ mt.mode = 2 /\ MtMatching # {}) =>
        /\ mt.result.value = Some(mt.keywords[Least(MtMatching)])
        /\ mt.run[Least(MtMatching)].dur <= mt.timeout

(***************************************************************************)
(* Properties of the message pipeline                                      *)
(***************************************************************************)

\* C1: with NOTIFY_INTERVAL > 0, any two delivered notifications of one
\* (monitor channel, notify channel) pair are at least NOTIFY_INTERVAL seconds
\* apart, however the handling of concurrent messages interleaves.
C1_OnePerInterval ==
    config.NOTIFY_INTERVAL > 0 =>
        \A i, j \in 1..Len(sent) :
            (i < j /\ sent[i].monitor = sent[j].monitor /\ sent[i].to = sent[j].to) =>
                \/ sent[j].time - sent[i].time >= config.NOTIFY_INTERVAL
                \/ sent[i].time - sent[j].time >= config.NOTIFY_INTERVAL

\* the notifications delivered so far under rule key k
SentFor(k) == SelectSeq(sent, LAMBDA n : n.key = k)

\* the time of the message for which the latest of them was delivered
LastSentTime(k) == SentFor(k)[Len(SentFor(k))].time

\* C2: once a notification has been delivered under a rule key for a message
\* handled at time t, a later matching message for that key, handled at t', is
\* skipped when t' - t < NOTIFY_INTERVAL and otherwise gets exactly one new
\* notification, to the rule's notify channel (one call at a time, store,
\* rendering and send succeeding).
C2_ThrottleWindow ==
    [][/\ (hs[1].pc = "get" /\ hs'[1] # hs[1]
              /\ SentFor(RuleKey(hs[1].monitor, hs[1].notify)) # <<>>) =>
            IF now - LastSentTime(RuleKey(hs[1].monitor, hs[1].notify)) < config.NOTIFY_INTERVAL
            THEN hs'[1].pc = "rule" /\ hs'[1].out = "suppressed" /\ sent' = sent
            ELSE hs'[1].pc = "send" /\ hs'[1].cur = now /\ sent' = sent
       /\ (hs[1].pc = "send" /\ hs'[1] # hs[1]) =>
            /\ Len(sent') = Len(sent) + 1
            /\ SubSeq(sent', 1, Len(sent)) = sent
            /\ sent'[Len(sent')].to = hs[1].notify
            /\ sent'[Len(sent')].time = hs[1].cur
            /\ hs'[1].pc = "set"
       /\ sent' # sent => hs[1].pc = "send"
      ]_vars

\* two messages got a notification under the same key, the second one at least
\* NOTIFY_INTERVAL after the first, and a third evaluation was skipped since
C2_Witness ==
    /\ config.NOTIFY_INTERVAL > 0
    /\ Len(sent) = 2
    /\ sent[1].key = sent[2].key /\ sent[1].msg # sent[2].msg
    /\ sent[2].time - sent[1].time >= config.NOTIFY_INTERVAL
    /\ hs[1].out = "suppressed"

\* C3: the throttle decision is to fire exactly when the key has no record or
\* now - lastFired >= NOTIFY_INTERVAL; with no record the first matching message
\* fires whatever the time and the interval are.
C3_FireIffNoRecordOrElapsed ==
    [][\A h \in Handlers :
          (hs[h].pc = "get" /\ hs'[h].pc \in {"rule", "send"}) =>
             (hs'[h].pc = "send" <=>
                \/ StoreGet(HandlerKey(h)) = None
                \/ now - PyFloat(StoreGet(HandlerKey(h))[1]).value >= config.NOTIFY_INTERVAL)
      ]_vars

\* C4: a failed send leaves the store as it was, and a throttle record is only
\* ever written with the time of a notification that has been delivered.
C4_FailedSendKeepsRecord ==
    [][/\ \A h \in Handlers :
             (hs[h].pc = "send" /\ hs'[h].out = "sendfail") => store' = store
       /\ \A h \in Handlers :
             (hs[h].pc = "set" /\ store' # store) =>
                \E i \in 1..Len(sent) :
                    /\ sent[i].key = RuleKey(hs[h].monitor, hs[h].notify)
                    /\ store' = StoreSet(HandlerKey(h), PyStr(sent[i].time))
       /\ store' # store => \E h \in Handlers : hs[h].pc = "set"
      ]_vars

\* a send has failed for a key that has a record, and the record is still there
C4_Witness ==
    \E h \in Handlers :
        /\ hs[h].out = "sendfail"
        /\ DOMAIN store # {}
        /\ \A k \in DOMAIN store : \E i \in 1..Len(sent) : store[k] = PyStr(sent[i].time)

\* the rules of rule texts that parse and monitor channel c, in order
ApplicableRules(c, texts) ==
    LET parsed == [i \in 1..Len(texts) |-> parse_rule(texts[i])]
        mine == SelectSeq(parsed, LAMBDA p : p # None /\ p[1].monitor = c)
    IN [i \in 1..Len(mine) |-> mine[i][1]]

\* C5: the rules applied to a message on channel c are the well-formed
\* configured rules and the temporary rules that monitor c, configured ones
\* first: a rule add_temp_monitor_rule has stored is applied to later messages.
C5_TemporaryRulesApplied ==
    \A h \in Handlers :
        (hs[h].pc = "rule" /\ hs[h].idx > Len(RulesToCheck)) =>
            hs[h].applied = ApplicableRules(hs[h].chan, config.MONITOR_RULES \o StoredTempRules)

\* C6: whatever the message, the configuration and the collaborators do, the
\* handler raises nothing to the host and returns None.
C6_HandlerReturnsNone ==
    \A h \in Handlers : hs[h].ret # None => hs[h].ret = Some(Returned(None))

\* calls have ended in the outer except clause, after a failed store read and
\* after a template that could not be rendered, and returned None
C6_Witness ==
    \E h, g \in Handlers :
        /\ hs[h].pc = "idle" /\ hs[h].out = "StoreError" /\ hs[h].ret = Some(Returned(None))
        /\ hs[g].pc = "idle" /\ hs[g].out = "KeyError" /\ hs[g].ret = Some(Returned(None))

(***************************************************************************)
(* Properties of add_temp_monitor_rule                                     *)
(***************************************************************************)

\* C10: of two calls in sequence with the same arguments (keywords and
\* patterns that pass the call's validation), the first reports success and
\* appends the rule, the second reports that the rule exists and leaves the
\* stored list as it is.
C10_SecondAddAlreadyExists ==
    [][(adds[1].pc \in {"get", "set"} /\ adds'[1].pc = "idle") =>
          IF AdderRule(1) \in accepted
          THEN adds'[1].ret = Some(Returned("AlreadyExists")) /\ store' = store
          ELSE /\ adds'[1].ret = Some(Returned("ok"))
               /\ StoredTempRules' = Append(StoredTempRules, AdderRule(1))
      ]_vars

\* a rule was accepted, and the call after it was told that the rule exists
C10_Witness ==
    /\ Cardinality(accepted) = 1
    /\ nadd = 2
    /\ Len(StoredTempRules) = 1
    /\ adds[1].ret = Some(Returned("AlreadyExists"))

(***************************************************************************)
(* Claims about concurrent add_temp_monitor_rule calls (SpecAdd)           *)
(***************************************************************************)

\* no member of the list occurs at two positions
NoRepeat(list) ==
    \A i, j \in 1..Len(list) : list[i] = list[j] => i = j

\* C11: in every reachable state, however the concurrent add calls interleave,
\* the stored temporary rule list holds no rule text more than once.
C11_NoDuplicateRule == NoRepeat(StoredTempRules)

\* two overlapping calls for the same rule text have both reported success,
\* and the list holds the text once
C11_Witness ==
    /\ adds[1].ret = Some(Returned("ok"))
    /\ adds[2].ret = Some(Returned("ok"))
    /\ Cardinality(accepted) = 1
    /\ Len(StoredTempRules) = 1

(***************************************************************************)
(* Claims about parse_rule (SpecParse)                                     *)
(***************************************************************************)

\* the positions of s holding sep, with the positions before and after s
Cuts(s, sep) == {0, Len(s) + 1} \cup {i \in 1..Len(s) : s[i] = sep}

\* the k-th smallest member of a set of numbers
Nth(S, k) == CHOOSE c \in S : Cardinality({d \in S : d < c}) = k - 1

\* the segments of s between two neighbouring cuts, in order
Segments(s, sep) ==
    [k \in 1..(Cardinality(Cuts(s, sep)) - 1) |->
        SubSeq(s, Nth(Cuts(s, sep), k) + 1, Nth(Cuts(s, sep), k + 1) - 1)]

\* s from its first to its last character that is not a blank
Trimmed(s) ==
    LET inked == {i \in 1..Len(s) : s[i] # " "}
    IN IF inked = {} THEN <<>>
       ELSE SubSeq(s, Nth(inked, 1), Nth(inked, Cardinality(inked)))

\* the trimmed comma-separated pieces of s that are not empty, in order
Pieces(s) ==
    LET trimmed == [k \in 1..Len(Segments(s, ",")) |-> Trimmed(Segments(s, ",")[k])]
    IN SelectSeq(trimmed, LAMBDA piece : piece # <<>>)

\* three segments, none empty after trimming, and a keyword among the pieces
WellFormed(text) ==
    /\ Len(Segments(text, "|")) = 3
    /\ \A k \in 1..3 : Trimmed(Segments(text, "|")[k]) # <<>>
    /\ Pieces(Segments(text, "|")[2]) # <<>>

Documented(text) ==
    IF text = DocRegexRule
    THEN [monitor |-> <<"g">>, keywords |-> << <<"x">>, <<"y">>, <<"z">> >>,
          notify |-> <<"p">>]
    ELSE [monitor |-> <<"g">>,
          keywords |-> << <<"(", "x", "|", "y", "|", "u", ")">>, <<"z", ".">>,
                          <<"e", ".">> >>,
          notify |-> <<"p">>]

\* C13: every regex-mode example line of the module documentation, the one
\* whose first keyword holds '|' inside parentheses included, is accepted by
\* parse_rule with the documented monitor channel, keyword patterns and notify
\* channel.
C13_DocExamplesParse ==
    (pr.pc = "returned" /\ pr.text \in DocRules) =>
        pr.result = Some(Documented(pr.text))

(***************************************************************************)
(* Claims about rendering and the throttle record (SpecNoFault)            *)
(***************************************************************************)

\* the template with the known fields filled in and any other field left as
\* its own text, "{name}"
RenderLiteral(template, kwargs) ==
    [i \in 1..Len(template) |->
        IF template[i].kind = "lit" THEN template[i].s
        ELSE IF template[i].s \in DOMAIN kwargs THEN kwargs[template[i].s]
        ELSE <<"{", template[i].s, "}">>]

\* the throttle test of the code lets the rule handler h is evaluating through
ThrottleOpen(h) ==
    /\ ~LastNotifyTime(StoreGet(HandlerKey(h))).raised
    /\ ~IntervalNotElapsed(now, LastNotifyTime(StoreGet(HandlerKey(h))).value,
                           config.NOTIFY_INTERVAL)

\* C14: with a template holding a placeholder other than the five known ones,
\* rendering raises no error, the placeholder stays as literal text, and the
\* notification of a matched rule whose throttle is open is still sent.
C14_UnknownPlaceholderLiteral ==
    [][\A h \in Handlers :
          (hs[h].pc = "get" /\ hs'[h] # hs[h] /\ ThrottleOpen(h)) =>
              /\ hs'[h].pc = "send"
              /\ hs'[h].note = RenderLiteral(config.NOTIFY_TEMPLATE, FormatArgs(h, now))
      ]_vars

\* the store holds nothing under the key, or a text float() does not take
NoUsableRecord(h) ==
    \/ StoreGet(HandlerKey(h)) = None
    \/ /\ StoreGet(HandlerKey(h)) # None
       /\ PyFloat(StoreGet(HandlerKey(h))[1]).raised

\* C15: when the store holds nothing, or nothing that reads as a number, under
\* a throttle key, the read raises no error and gives 0, and a matching
\* message of that key is taken as not throttled and goes on to be notified.
C15_NoRecordReadsAsNeverFired ==
    [][\A h \in Handlers :
          (hs[h].pc = "get" /\ hs'[h] # hs[h] /\ NoUsableRecord(h)) =>
              /\ LastNotifyTime(StoreGet(HandlerKey(h))) = Returned(0)
              /\ hs'[h].out \notin {"ValueError", "suppressed"}
      ]_vars

(***************************************************************************)
(* Claims about the throttle bucket of a channel pair (SpecSerial)         *)
(***************************************************************************)

C18_KeyTellsPairsApart ==
    [][(hs[1].pc = "get" /\ hs'[1].pc = "rule" /\ hs'[1].out = "suppressed"
            /\ StoreGet(HandlerKey(1)) # None) =>
          \E i \in 1..Len(sent) :
              sent[i].monitor = hs[1].monitor /\ sent[i].to = hs[1].notify
      ]_vars

(***************************************************************************)
(* Claims about the stored values                                          *)
(***************************************************************************)

\* the throttle records of the store: every key but temp_rules
ThrottleKeys(st) == DOMAIN st \ {TempRulesKey}

\* C19: under every interleaving of message handlers, with a clock that does
\* not go back, a throttle record is never removed and every write stores a
\* time greater than or equal to the one it overwrites.
C19_LastFiredNeverDecreases ==
    [][\A k \in ThrottleKeys(store) :
          /\ k \in ThrottleKeys(store')
          /\ PyFloat(store'[k]).value >= PyFloat(store[k]).value
      ]_vars

\* C17: once add_temp_monitor_rule has reported success for a rule text, the
\* stored list holds that text in every later state, however concurrent calls
\* interleave.
C17_AcceptedRuleStays ==
    \A rule \in accepted : InList(rule, StoredTempRules)

\* C20: every rule text add_temp_monitor_rule stores when it reports success is
\* one parse_rule accepts, with the trimmed monitor and notify channels of the
\* call and the keyword list the call validated.
C20_StoredRuleWellFormed ==
    [][\A a \in Adders :
          (adds[a].pc = "set" /\ adds'[a].ret = Some(Returned("ok"))) =>
              parse_rule(AdderRule(a)) =
                  Some([monitor |-> Strip(adds[a].monitor),
                        keywords |-> KeywordList(adds[a].keywords),
                        notify |-> Strip(adds[a].notify)])
      ]_vars

====
